---- MODULE Spec2Model ----
(***************************************************************************)
(* Account-management front end: Login, SignUp, ForgotPassword and Profile *)
(* screens, the route table of App.tsx, and the auth / document / file     *)
(* services they call.  Text is modelled as sequences of one-character     *)
(* strings, so that the validators are computed character by character.    *)
(***************************************************************************)
EXTENDS Integers, Sequences, FiniteSets, TLC

VARIABLES
    authLoading,    \* session provider: initial session still unresolved
    currentUser,    \* session provider: the authenticated identity, or NoUser
    path,           \* router: current location
    mounted,        \* which screen element is rendered
    ui,             \* the mounted screen's useState / useForm values
    pending,        \* backend requests in flight (one slot per request)
    accounts,       \* auth service: identities that exist
    displayName,    \* auth service: identity -> display name
    photoOf,        \* auth service: identity -> photo reference
    docs,           \* document store: "users/<uid>" documents
    clock,          \* Date.now()
    vin,            \* validator run: the submitted SignUp form
    vout            \* validator run: field -> violation message

vars == <<authLoading, currentUser, path, mounted, ui, pending, accounts,
          displayName, photoOf, docs, clock, vin, vout>>

appVars == <<authLoading, currentUser, path, mounted, ui, pending, accounts,
             displayName, photoOf, docs, clock>>

-----------------------------------------------------------------------------
(* Bounds *)

\* longest age string enumerated by the validator specification
MaxAgeLen == 3

\* requests that may be in flight at once
MaxPending == 2

\* handler invocations that call the backend; each one advances Date.now()
MaxClock == 2

-----------------------------------------------------------------------------
(* Text *)

Empty == <<>>

Digits == {"0", "1", "2", "3", "4", "5", "6", "7", "8", "9"}

Letters == {"a", "b", "c", "d", "e", "n", "o", "r", "s", "t", "y", "z"}

WhiteSpace == {" "}

DigitVal(c) ==
    CASE c = "0" -> 0 [] c = "1" -> 1 [] c = "2" -> 2 [] c = "3" -> 3
      [] c = "4" -> 4 [] c = "5" -> 5 [] c = "6" -> 6 [] c = "7" -> 7
      [] c = "8" -> 8 [] c = "9" -> 9

Chars(s) == {s[i] : i \in 1..Len(s)}

StartsWith(s, p) == Len(s) >= Len(p) /\ SubSeq(s, 1, Len(p)) = p

RECURSIVE Pow10(_)
Pow10(n) == IF n = 0 THEN 1 ELSE 10 * Pow10(n - 1)

RECURSIVE DigitsValue(_)
DigitsValue(s) ==
    IF s = Empty THEN 0
    ELSE 10 * DigitsValue(SubSeq(s, 1, Len(s) - 1)) + DigitVal(s[Len(s)])

RECURSIVE TrimLeft(_)
TrimLeft(s) ==
    IF s # Empty /\ s[1] \in WhiteSpace THEN TrimLeft(Tail(s)) ELSE s

RECURSIVE TrimRight(_)
TrimRight(s) ==
    IF s # Empty /\ s[Len(s)] \in WhiteSpace
    THEN TrimRight(SubSeq(s, 1, Len(s) - 1)) ELSE s

Trim(s) == TrimRight(TrimLeft(s))

NaN == [nan |-> TRUE, num |-> 0, den |-> 1]

\* An unsigned decimal literal: digits, optionally one "." with digits on
\* either side (at least one digit in all).  The value is num / den.
UnsignedDecimal(s) ==
    LET dots == {i \in 1..Len(s) : s[i] = "."}
    IN  IF s = Empty \/ ~(Chars(s) \subseteq Digits \cup {"."}) THEN NaN
        ELSE IF dots = {} THEN [nan |-> FALSE, num |-> DigitsValue(s), den |-> 1]
        ELSE IF Cardinality(dots) > 1 \/ Len(s) = 1 THEN NaN
        ELSE LET d == CHOOSE i \in dots : TRUE
                 ip == SubSeq(s, 1, d - 1)
                 fp == SubSeq(s, d + 1, Len(s))
             IN  [nan |-> FALSE,
                  num |-> DigitsValue(ip) * Pow10(Len(fp)) + DigitsValue(fp),
                  den |-> Pow10(Len(fp))]

\* JavaScript Number(string) on the modelled alphabet: white space is trimmed,
\* the empty string is 0, an optional sign precedes a decimal literal, and
\* anything else is NaN.
Number(val) ==
    LET t == Trim(val)
    IN  IF t = Empty THEN [nan |-> FALSE, num |-> 0, den |-> 1]
        ELSE IF t[1] = "-"
             THEN LET u == UnsignedDecimal(Tail(t))
                  IN  IF u.nan THEN NaN ELSE [u EXCEPT !.num = 0 - u.num]
        ELSE IF t[1] = "+" THEN UnsignedDecimal(Tail(t))
        ELSE UnsignedDecimal(t)

isNaN(n) == n.nan

\* Number(val) >= k
NumberAtLeast(n, k) == n.num >= k * n.den

-----------------------------------------------------------------------------
(* Form Validator: the zod schemas *)

EmailMsg == "Please enter a valid email address"
PasswordMsg == "Password must be at least 6 characters"
UsernameMsg == "Username must be at least 3 characters"
AgeMsg == "You must be at least 18 years old"
MismatchMsg == "Passwords don't match"
DobMsg == "Date of birth is required"
MobileLenMsg == "Mobile number must be at least 10 digits"
MobileShapeMsg == "Please enter a valid mobile number"
AddressMsg == "Address must be at least 5 characters"

NoErrors == [k \in {} |-> ""]

\* z.string().email(): one "@"; a local part of word characters and dots that
\* neither starts nor ends with a dot; no ".." anywhere; a domain of dot
\* separated labels ending in a label of two or more letters.
IsEmail(s) ==
    LET ats == {i \in 1..Len(s) : s[i] = "@"}
    IN  /\ Cardinality(ats) = 1
        /\ LET p == CHOOSE i \in ats : TRUE
               local == SubSeq(s, 1, p - 1)
               domain == SubSeq(s, p + 1, Len(s))
               dots == {i \in 1..Len(domain) : domain[i] = "."}
           IN  /\ local # Empty
               /\ Chars(local) \subseteq Letters \cup Digits \cup {"."}
               /\ local[1] # "." /\ local[Len(local)] # "."
               /\ \A i \in 1..(Len(s) - 1) : ~(s[i] = "." /\ s[i + 1] = ".")
               /\ domain # Empty
               /\ Chars(domain) \subseteq Letters \cup Digits \cup {"."}
               /\ domain[1] # "."
               /\ dots # {}
               /\ LET last == CHOOSE i \in dots : \A j \in dots : j <= i
                  IN  /\ Len(domain) - last >= 2
                      /\ Chars(SubSeq(domain, last + 1, Len(domain))) \subseteq Letters

\* violations of one field, as (field, message) pairs in rule order
Rule(field, ok, msg) == IF ok THEN {} ELSE {<<field, msg>>}

\* react-hook-form keeps the first violation reported for a field
ToErrors(issues, order) ==
    LET fields == {i[1] : i \in issues}
    IN  [f \in fields |->
            LET mine == {i[2] : i \in {j \in issues : j[1] = f}}
                first == CHOOSE k \in 1..Len(order) :
                            /\ order[k] \in mine
                            /\ \A j \in 1..(k - 1) : order[j] \notin mine
            IN  order[first]]

MsgOrder == <<EmailMsg, PasswordMsg, UsernameMsg, AgeMsg, DobMsg,
              MobileLenMsg, MobileShapeMsg, AddressMsg, MismatchMsg>>

loginSchemaAnyEmail(data) ==
    ToErrors(Rule("password", Len(data.password) >= 6, PasswordMsg), MsgOrder)

loginSchema(data) ==
    ToErrors(Rule("email", IsEmail(data.email), EmailMsg)
             \cup Rule("password", Len(data.password) >= 6, PasswordMsg),
             MsgOrder)

ageRefineOver18(val) ==
    /\ ~isNaN(Number(val))
    /\ NumberAtLeast(Number(val), 18)
    /\ Number(val).num # 18 * Number(val).den

\* (val) => !isNaN(Number(val)) && Number(val) >= 18
ageRefine(val) == ~isNaN(Number(val)) /\ NumberAtLeast(Number(val), 18)

signUpSchemaOnPassword(data) ==
    ToErrors(Rule("username", Len(data.username) >= 3, UsernameMsg)
             \cup Rule("email", IsEmail(data.email), EmailMsg)
             \cup Rule("password", Len(data.password) >= 6, PasswordMsg)
             \cup Rule("age", ageRefine(data.age), AgeMsg)
             \cup Rule("password",
                       data.password = data.confirmPassword, MismatchMsg),
             MsgOrder)

\* z.object({...}).refine(...): every field is a string, so a failed check
\* leaves the object parse dirty (not aborted) and the cross-field refinement
\* still runs; its issue carries path ['confirmPassword'].
signUpSchema(data) ==
    ToErrors(Rule("username", Len(data.username) >= 3, UsernameMsg)
             \cup Rule("email", IsEmail(data.email), EmailMsg)
             \cup Rule("password", Len(data.password) >= 6, PasswordMsg)
             \cup Rule("age", ageRefine(data.age), AgeMsg)
             \cup Rule("confirmPassword",
                       data.password = data.confirmPassword, MismatchMsg),
             MsgOrder)

forgotPasswordSchema(data) ==
    ToErrors(Rule("email", IsEmail(data.email), EmailMsg), MsgOrder)

MobileChars == Digits \cup WhiteSpace \cup {"-", "(", ")"}

\* /^\+?[0-9\s-()]+$/
MobileShape(s) ==
    LET body == IF s # Empty /\ s[1] = "+" THEN Tail(s) ELSE s
    IN  body # Empty /\ Chars(body) \subseteq MobileChars

profileSchema(data) ==
    ToErrors(Rule("username", Len(data.username) >= 3, UsernameMsg)
             \cup Rule("dob", data.dob # Empty, DobMsg)
             \cup Rule("mobileNumber", Len(data.mobileNumber) >= 10, MobileLenMsg)
             \cup Rule("mobileNumber", MobileShape(data.mobileNumber), MobileShapeMsg)
             \cup Rule("address", Len(data.address) >= 5, AddressMsg),
             MsgOrder)

-----------------------------------------------------------------------------
(* Identities, routes and screens *)

Users == {"u1", "u2"}

NoUser == "null"

\* the (immutable) email of each identity
EmailA == <<"a", "@", "b", ".", "c", "c">>
EmailB == <<"b", "@", "b", ".", "c", "c">>
EmailOf(u) == IF u = "u1" THEN EmailA ELSE EmailB

NameAnn == <<"a", "n", "n">>
NameBob == <<"b", "o", "b", "b", "y">>

\* a photo reference is a tuple; Null is the absent one
Null == <<>>
GooglePhoto == <<"ext", "google", 0, "avatar">>
OldPhoto == <<"profileImages", "u1", 0, "old.png">>

Routes == {"/login", "/signup", "/forgot-password", "/profile", "/"}

RouteElementOpenHome(p) ==
    CASE p = "/login" -> [screen |-> "Login", protected |-> FALSE]
      [] p = "/signup" -> [screen |-> "SignUp", protected |-> FALSE]
      [] p = "/forgot-password" -> [screen |-> "ForgotPassword", protected |-> FALSE]
      [] p = "/profile" -> [screen |-> "Profile", protected |-> TRUE]
      [] p = "/" -> [screen |-> "Profile", protected |-> FALSE]

\* <Route path=... element=...>: the element of each route and whether it is
\* wrapped in <ProtectedRoute>
RouteElement(p) ==
    CASE p = "/login" -> [screen |-> "Login", protected |-> FALSE]
      [] p = "/signup" -> [screen |-> "SignUp", protected |-> FALSE]
      [] p = "/forgot-password" -> [screen |-> "ForgotPassword", protected |-> FALSE]
      [] p = "/profile" -> [screen |-> "Profile", protected |-> TRUE]
      [] p = "/" -> [screen |-> "Profile", protected |-> TRUE]

\* ProtectedRoute: nothing while the session is unresolved, the child when
\* authenticated, a redirect element otherwise
ProtectedRoute(child, ld, cu) ==
    IF ld THEN "None" ELSE IF cu # NoUser THEN child ELSE "Navigate"

\* what <Routes> renders at location p for session (ld, cu)
Render(p, ld, cu) ==
    LET e == RouteElement(p)
    IN  IF e.protected THEN ProtectedRoute(e.screen, ld, cu) ELSE e.screen

-----------------------------------------------------------------------------
(* Requests in flight *)

Slots == 1..MaxPending

NoData == [k \in {} |-> Empty]

\* no file name among a request's arguments
NoFile == ""

\* kind: the awaited call; live: the issuing screen instance is still mounted;
\* cu: the currentUser captured by the handler's closure; key: the identity id
\* the request is addressed to; data, photo, file (its name), at: the call's
\* arguments
Free == [kind |-> "free", live |-> FALSE, cu |-> NoUser, key |-> NoUser,
         data |-> NoData, photo |-> Null, file |-> NoFile, at |-> 0]

Op(kind, cu, key, data, photo, file, at) ==
    [kind |-> kind, live |-> TRUE, cu |-> cu, key |-> key, data |-> data,
     photo |-> photo, file |-> file, at |-> at]

FreeSlots(pend) == {i \in Slots : pend[i].kind = "free"}

HasFree(pend) == FreeSlots(pend) # {}

Issue(pend, op) ==
    LET i == CHOOSE k \in FreeSlots(pend) : \A j \in FreeSlots(pend) : k <= j
    IN  [pend EXCEPT ![i] = op]

Release(pend, i) == [pend EXCEPT ![i] = Free]

\* the screen instance unmounts: its requests stay in flight, detached
Orphan(pend) == [i \in Slots |-> [pend[i] EXCEPT !.live = FALSE]]

InFlight(kinds) == {i \in Slots : pending[i].kind \in kinds /\ pending[i].live}

-----------------------------------------------------------------------------
(* Screen state *)

NoValues == [k \in {} |-> Empty]

\* a || b on strings and references: undefined, null and '' are all falsy
OrElse(a, b) == IF a # Empty THEN a ELSE b

NameOf(names, cu) == IF cu = NoUser THEN Empty ELSE names[cu]

\* useState initial values (and useForm defaultValues) of a screen
InitialUi(screen, cu, names) ==
    [error |-> "", message |-> "", isLoading |-> FALSE, profileImage |-> Null,
     fetchingUserData |-> (screen = "Profile"),
     errors |-> NoErrors,
     \* useForm({defaultValues: {username: currentUser?.displayName || '', ...}})
     values |-> IF screen = "Profile"
                THEN [username |-> OrElse(NameOf(names, cu), Empty), dob |-> Empty,
                      mobileNumber |-> Empty, address |-> Empty]
                ELSE NoValues]

\* Profile's useEffect([currentUser, reset]): fetchUserData starts a read of
\* users/<currentUser.uid>; it returns at once when there is no currentUser
FetchIssued(cu) == cu # NoUser

FetchKey(cu) == cu

fetchUserDataStart(scr, pend, cu) ==
    IF FetchIssued(cu)
    THEN [ui |-> [scr EXCEPT !.fetchingUserData = TRUE],
          pending |-> Issue(pend, Op("getDoc", cu, FetchKey(cu), NoData, Null, NoFile, 0))]
    ELSE [ui |-> scr, pending |-> pend]

\* React commits the tree for location p and session (ld, cu).  scr is the
\* mounted screen's state as the running handler left it and pend the requests
\* in flight; names is the identities' display names after the step.
Commit(p, ld, cu, scr, pend, names) ==
    LET target == Render(p, ld, cu)
        same == target = mounted
        base == IF same THEN scr ELSE InitialUi(target, cu, names)
        pend1 == IF same THEN pend ELSE Orphan(pend)
        effect == target = "Profile" /\ (~same \/ cu # currentUser)
        next == IF effect THEN fetchUserDataStart(base, pend1, cu)
                ELSE [ui |-> base, pending |-> pend1]
    IN  /\ effect /\ FetchIssued(cu) => HasFree(pend1)
        /\ path' = p
        /\ authLoading' = ld
        /\ currentUser' = cu
        /\ mounted' = target
        /\ ui' = next.ui
        /\ pending' = next.pending

-----------------------------------------------------------------------------
(* Inputs *)

Secret == <<"s", "e", "c", "r", "e", "t">>
Secre2 == <<"s", "e", "c", "r", "e", "2">>
ShortPw == <<"p", "w">>
NoAtEmail == <<"a", "b", ".", "c", "c">>
NoTldEmail == <<"a", "@", "b">>

Age17 == <<"1", "7">>
Age18 == <<"1", "8">>

LoginInputs ==
    {[email |-> EmailA, password |-> Secret],
     [email |-> NoAtEmail, password |-> Secret],
     [email |-> Empty, password |-> Secret],
     [email |-> NoTldEmail, password |-> ShortPw]}

SignUpForm(email, password, confirmPassword, age) ==
    [username |-> NameBob, email |-> email, password |-> password,
     confirmPassword |-> confirmPassword, age |-> age]

SignUpInputs ==
    {SignUpForm(EmailB, Secret, Secret, Age18),
     SignUpForm(EmailB, Secret, Secre2, Age18),
     SignUpForm(NoAtEmail, Secret, Secret, Age18),
     SignUpForm(Empty, Secret, Secret, Age18),
     SignUpForm(NoAtEmail, Secret, Secre2, Age17)}

ForgotInputs == [email : {EmailA, NoAtEmail, Empty}]

-----------------------------------------------------------------------------
(* Messages *)

SignInFailedMsg == "Failed to sign in. Please check your credentials."
GoogleFailedMsg == "Failed to sign in with Google."
SignUpFailedMsg == "Failed to create an account."
ResetSentMsg == "Check your inbox for password reset instructions."
ResetFailedMsg == "Failed to reset password. Please check your email address."
LogoutFailedMsg == "Failed to log out."
NotImageMsg == "Please select an image file (PNG, JPG, etc.)"
TooLargeMsg == "Image size should be less than 5MB"
UploadFailedMsg == "Failed to upload image."
SavedMsg == "Profile updated successfully!"
SaveFailedMsg == "Failed to update profile."

-----------------------------------------------------------------------------
(* Session provider and auth service *)

\* <Button isLoading={isLoading}> and disabled={isLoading}: the control does
\* not fire while the screen is loading
ControlEnabled(scr) == ~scr.isLoading

\* sign-in(email, password) can succeed only for an existing identity
signInAccepts(u, email) == u \in accounts /\ EmailOf(u) = email

\* sign-up(email, password) can succeed only for an unused email
signUpAccepts(u, email) == u \notin accounts /\ EmailOf(u) = email

\* update-profile-identity(displayName, photoURL?): an absent photo reference
\* leaves the identity's photo as it is
updateUserProfile(tab, key, value) ==
    IF key \in Users /\ value # Null THEN [tab EXCEPT ![key] = value] ELSE tab

\* the state of the screen a handler writes to: setState on an instance that
\* has unmounted changes nothing
IfLive(op, scr) == IF op.live THEN scr ELSE ui

\* no navigation, no session change
Stay(scr, pend) == Commit(path, authLoading, currentUser, scr, pend, displayName)

Services == <<accounts, displayName, photoOf, docs>>

Backend == <<accounts, displayName, photoOf, docs, clock>>

\* time passes with every handler invocation that calls the backend
Tick == clock < MaxClock /\ clock' = clock + 1

\* onAuthStateChanged reports the persisted session for the first time
AuthResolve ==
    /\ authLoading
    /\ \E cu \in accounts \cup {NoUser} :
          Commit(path, FALSE, cu, ui, pending, displayName)
    /\ UNCHANGED <<Backend, vin, vout>>

\* the provider's session ends outside this application's own calls (followed
\* here while a protected route is shown)
SessionExpired ==
    /\ ~authLoading /\ currentUser # NoUser
    /\ RouteElement(path).protected
    /\ Commit(path, FALSE, NoUser, ui, pending, displayName)
    /\ UNCHANGED <<Backend, vin, vout>>

\* <Navigate to="/login" /> rendered by the guard takes effect
GuardRedirect ==
    /\ mounted = "Navigate"
    /\ Commit("/login", authLoading, currentUser, ui, pending, displayName)
    /\ UNCHANGED <<Backend, vin, vout>>

\* <Link to=...> of the mounted screen
Links(screen) ==
    CASE screen = "Login" -> {"/forgot-password", "/signup"}
      [] screen = "SignUp" -> {"/login"}
      [] screen = "ForgotPassword" -> {"/login"}
      [] OTHER -> {}

ClickLink ==
    /\ \E to \in Links(mounted) :
          Commit(to, authLoading, currentUser, ui, pending, displayName)
    /\ UNCHANGED <<Backend, vin, vout>>

-----------------------------------------------------------------------------
(* Login *)

\* handleSubmit(onSubmit), validation failed: only the field errors change
Invalid(errs) == Stay([ui EXCEPT !.errors = errs], pending) /\ UNCHANGED clock

LoginOnSubmit(data) ==
    /\ HasFree(pending)
    /\ Stay([ui EXCEPT !.errors = NoErrors, !.error = "", !.isLoading = TRUE],
            Issue(pending, Op("signIn", NoUser, NoUser, data, Null, NoFile, 0)))
    /\ Tick

LoginSubmit(data) ==
    /\ mounted = "Login" /\ ControlEnabled(ui)
    /\ IF loginSchema(data) # NoErrors
       THEN Invalid(loginSchema(data))
       ELSE LoginOnSubmit(data)
    /\ UNCHANGED <<Services, vin, vout>>

handleGoogleSignIn ==
    /\ mounted = "Login" /\ ControlEnabled(ui)
    /\ HasFree(pending)
    /\ Stay([ui EXCEPT !.error = "", !.isLoading = TRUE],
            Issue(pending, Op("googleSignIn", NoUser, NoUser, NoData, Null, NoFile, 0)))
    /\ Tick
    /\ UNCHANGED <<Services, vin, vout>>

AfterSignInHome == "/"

\* where a successful sign-in sends the router
AfterSignIn == "/profile"

\* await signIn(...) resolved: navigate('/profile'), then finally
SignInOk(i) ==
    /\ pending[i].kind = "signIn" /\ ~authLoading
    /\ \E u \in Users :
          /\ signInAccepts(u, pending[i].data.email)
          /\ Commit(AfterSignIn, FALSE, u,
                    IfLive(pending[i], [ui EXCEPT !.isLoading = FALSE]),
                    Release(pending, i), displayName)
    /\ UNCHANGED <<Backend, vin, vout>>

\* await signIn(...) rejected: catch, then finally
SignInFailed(i) ==
    /\ pending[i].kind = "signIn"
    /\ Stay(IfLive(pending[i], [ui EXCEPT !.error = SignInFailedMsg, !.isLoading = FALSE]),
            Release(pending, i))
    /\ UNCHANGED <<Backend, vin, vout>>

GoogleOk(i) ==
    /\ pending[i].kind = "googleSignIn" /\ ~authLoading
    /\ \E u \in Users :
          /\ accounts' = accounts \cup {u}
          /\ displayName' = IF u \in accounts THEN displayName
                            ELSE [displayName EXCEPT ![u] = NameAnn]
          /\ photoOf' = IF u \in accounts THEN photoOf
                        ELSE [photoOf EXCEPT ![u] = GooglePhoto]
          /\ Commit("/profile", FALSE, u,
                    IfLive(pending[i], [ui EXCEPT !.isLoading = FALSE]),
                    Release(pending, i), displayName')
    /\ UNCHANGED <<docs, clock, vin, vout>>

GoogleFailed(i) ==
    /\ pending[i].kind = "googleSignIn"
    /\ Stay(IfLive(pending[i], [ui EXCEPT !.error = GoogleFailedMsg, !.isLoading = FALSE]),
            Release(pending, i))
    /\ UNCHANGED <<Backend, vin, vout>>

-----------------------------------------------------------------------------
(* SignUp *)

SignUpOnSubmit(data) ==
    /\ HasFree(pending)
    /\ Stay([ui EXCEPT !.errors = NoErrors, !.error = "", !.isLoading = TRUE],
            Issue(pending, Op("signUp", NoUser, NoUser, data, Null, NoFile, 0)))
    /\ Tick

SignUpSubmit(data) ==
    /\ mounted = "SignUp" /\ ControlEnabled(ui)
    /\ IF signUpSchema(data) # NoErrors
       THEN Invalid(signUpSchema(data))
       ELSE SignUpOnSubmit(data)
    /\ UNCHANGED <<Services, vin, vout>>

\* await signUp(...) resolved: the new identity is signed in and
\* updateUserProfile(data.username) is awaited next
SignUpOk(i) ==
    /\ pending[i].kind = "signUp" /\ ~authLoading
    /\ \E u \in Users :
          /\ signUpAccepts(u, pending[i].data.email)
          /\ accounts' = accounts \cup {u}
          /\ displayName' = [displayName EXCEPT ![u] = Empty]
          /\ photoOf' = [photoOf EXCEPT ![u] = Null]
          /\ Commit(path, FALSE, u, ui,
                    [pending EXCEPT ![i].kind = "signUp.updateUserProfile",
                                    ![i].key = u],
                    displayName')
    /\ UNCHANGED <<docs, clock, vin, vout>>

SignUpFailed(i) ==
    /\ pending[i].kind \in {"signUp", "signUp.updateUserProfile"}
    /\ Stay(IfLive(pending[i], [ui EXCEPT !.error = SignUpFailedMsg, !.isLoading = FALSE]),
            Release(pending, i))
    /\ UNCHANGED <<Backend, vin, vout>>

SignUpProfileOk(i) ==
    /\ pending[i].kind = "signUp.updateUserProfile"
    /\ displayName' = updateUserProfile(displayName, pending[i].key,
                                        pending[i].data.username)
    /\ Commit("/profile", authLoading, currentUser,
              IfLive(pending[i], [ui EXCEPT !.isLoading = FALSE]),
              Release(pending, i), displayName')
    /\ UNCHANGED <<accounts, photoOf, docs, clock, vin, vout>>

-----------------------------------------------------------------------------
(* ForgotPassword *)

ForgotOnSubmit(data) ==
    /\ HasFree(pending)
    /\ Stay([ui EXCEPT !.errors = NoErrors, !.message = "", !.error = "",
                        !.isLoading = TRUE],
            Issue(pending, Op("resetPassword", NoUser, NoUser, data, Null, NoFile, 0)))
    /\ Tick

ForgotSubmit(data) ==
    /\ mounted = "ForgotPassword" /\ ControlEnabled(ui)
    /\ IF forgotPasswordSchema(data) # NoErrors
       THEN Invalid(forgotPasswordSchema(data))
       ELSE ForgotOnSubmit(data)
    /\ UNCHANGED <<Services, vin, vout>>

ResetOk(i) ==
    /\ pending[i].kind = "resetPassword"
    /\ Stay(IfLive(pending[i], [ui EXCEPT !.message = ResetSentMsg, !.isLoading = FALSE]),
            Release(pending, i))
    /\ UNCHANGED <<Backend, vin, vout>>

ResetFailed(i) ==
    /\ pending[i].kind = "resetPassword"
    /\ Stay(IfLive(pending[i], [ui EXCEPT !.error = ResetFailedMsg, !.isLoading = FALSE]),
            Release(pending, i))
    /\ UNCHANGED <<Backend, vin, vout>>

-----------------------------------------------------------------------------
(* Profile *)

TypePng == <<"i", "m", "a", "g", "e", "/", "p", "n", "g">>
TypeGif == <<"i", "m", "a", "g", "e", "/", "g", "i", "f">>
TypePdf == <<"a", "p", "p", "l", "i", "c", "a", "t", "i", "o", "n", "/", "p", "d", "f">>
ImagePrefix == <<"i", "m", "a", "g", "e", "/">>

\* accept="image/png, image/jpeg, image/jpg" of the file input
AcceptAttribute ==
    {TypePng,
     <<"i", "m", "a", "g", "e", "/", "j", "p", "e", "g">>,
     <<"i", "m", "a", "g", "e", "/", "j", "p", "g">>}

\* 5 * 1024 * 1024
MaxImageBytes == 5 * 1024 * 1024

Files ==
    {[type |-> TypePng, size |-> 2 * 1024 * 1024, name |-> "me"],
     [type |-> TypePng, size |-> 6000000, name |-> "me"],
     [type |-> TypePng, size |-> MaxImageBytes, name |-> "me"],
     [type |-> TypePng, size |-> MaxImageBytes + 1, name |-> "me"],
     [type |-> TypeGif, size |-> 1024 * 1024, name |-> "me"],
     [type |-> TypePdf, size |-> 1024 * 1024, name |-> "me"]}

Dob == <<"2", "0", "0", "0", "-", "0", "1", "-", "0", "1">>
Mobile == <<"+", "1", " ", "(", "5", "5", "5", ")", " ", "0", "1", "0", "0">>
BadMobile == <<"5", "5", "5", "0", "1", "0", "0", "a", "b", "c">>
Addr == <<"1", " ", "a", " ", "s", "t">>

ProfileInputs ==
    {[username |-> NameBob, dob |-> Dob, mobileNumber |-> Mobile, address |-> Addr],
     [username |-> NameBob, dob |-> Dob, mobileNumber |-> BadMobile, address |-> Addr]}

NoDoc == [exists |-> FALSE, data |-> NoData]

\* a field of a document's data; a missing field reads as undefined (falsy)
Get(data, k) == IF k \in DOMAIN data THEN data[k] ELSE Empty

\* file.type.startsWith('image/')
IsImage(file) == StartsWith(file.type, ImagePrefix)

TooLargeAtLimit(file) == file.size >= MaxImageBytes

\* file.size > 5 * 1024 * 1024
TooLarge(file) == file.size > MaxImageBytes

\* `profileImages/${currentUser?.uid}/${Date.now()}-${file.name}`
UploadKey(cu) == IF cu = NoUser THEN "undefined" ELSE cu

DownloadURL(op) == <<"profileImages", op.key, op.at, op.file>>

\* onChange of the file input (rendered once the fetch has finished)
handleImageChange(file) ==
    /\ mounted = "Profile" /\ ~ui.fetchingUserData
    /\ IF ~IsImage(file)
       THEN /\ Stay([ui EXCEPT !.error = NotImageMsg], pending)
            /\ UNCHANGED clock
       ELSE IF TooLarge(file)
       THEN /\ Stay([ui EXCEPT !.error = TooLargeMsg], pending)
            /\ UNCHANGED clock
       ELSE /\ HasFree(pending)
            /\ Stay([ui EXCEPT !.isLoading = TRUE],
                    Issue(pending, Op("uploadBytes", currentUser, UploadKey(currentUser),
                                      NoData, Null, file.name, clock)))
            /\ Tick
    /\ UNCHANGED <<accounts, displayName, photoOf, docs, vin, vout>>

\* the file dialog was dismissed: e.target.files is empty
handleImageChangeNoFile ==
    /\ mounted = "Profile" /\ ~ui.fetchingUserData
    /\ UNCHANGED vars

\* await uploadBytes(...) resolved: getDownloadURL(fileRef) is awaited next
UploadBytesOk(i) ==
    /\ pending[i].kind = "uploadBytes"
    /\ Stay(ui, [pending EXCEPT ![i].kind = "getDownloadURL"])
    /\ UNCHANGED <<Backend, vin, vout>>

\* the preview after a successful upload
Uploaded(scr, url) == [scr EXCEPT !.profileImage = url, !.isLoading = FALSE]

GetDownloadURLOk(i) ==
    /\ pending[i].kind = "getDownloadURL"
    /\ Stay(IfLive(pending[i], Uploaded(ui, DownloadURL(pending[i]))),
            Release(pending, i))
    /\ UNCHANGED <<Backend, vin, vout>>

UploadFailed(i) ==
    /\ pending[i].kind \in {"uploadBytes", "getDownloadURL"}
    /\ Stay(IfLive(pending[i], [ui EXCEPT !.error = UploadFailedMsg, !.isLoading = FALSE]),
            Release(pending, i))
    /\ UNCHANGED <<Backend, vin, vout>>

ProfileOnSubmit(data) ==
    /\ HasFree(pending)
    /\ Stay([ui EXCEPT !.errors = NoErrors, !.message = "", !.error = "",
                        !.isLoading = TRUE],
            Issue(pending, Op("updateUserProfile", currentUser, currentUser, data,
                              ui.profileImage, NoFile, 0)))
    /\ Tick

ProfileSubmit(data) ==
    /\ mounted = "Profile" /\ ~ui.fetchingUserData /\ ControlEnabled(ui)
    /\ IF profileSchema(data) # NoErrors
       THEN /\ Invalid(profileSchema(data))
       ELSE ProfileOnSubmit(data)
    /\ UNCHANGED <<Services, vin, vout>>

\* the object passed to setDoc
SavedFields(op) ==
    [username |-> op.data.username, dob |-> op.data.dob,
     mobileNumber |-> op.data.mobileNumber, address |-> op.data.address,
     photoURL |-> op.photo, email |-> EmailOf(op.cu), updatedAt |-> op.at]

setDocOverwrite(doc, fields) == [exists |-> TRUE, data |-> fields]

\* setDoc(ref, fields, { merge: true })
setDoc(doc, fields) ==
    [exists |-> TRUE,
     data |-> [k \in DOMAIN doc.data \cup DOMAIN fields |->
                  IF k \in DOMAIN fields THEN fields[k] ELSE doc.data[k]]]

\* doc(db, "users", currentUser.uid) of onSubmit
SaveKey(op) == op.cu

\* await updateUserProfile(...) resolved: if (currentUser) setDoc(...) is
\* awaited next, stamped with the current time
SaveIdentityOk(i) ==
    /\ pending[i].kind = "updateUserProfile"
    /\ displayName' = updateUserProfile(displayName, pending[i].key,
                                        pending[i].data.username)
    /\ photoOf' = updateUserProfile(photoOf, pending[i].key, pending[i].photo)
    /\ IF pending[i].cu # NoUser
       THEN /\ Stay(ui, [pending EXCEPT ![i].kind = "setDoc",
                                        ![i].key = SaveKey(pending[i]),
                                        ![i].at = clock])
       ELSE /\ Stay(IfLive(pending[i], [ui EXCEPT !.message = SavedMsg, !.isLoading = FALSE]),
                    Release(pending, i))
    /\ UNCHANGED <<accounts, docs, clock, vin, vout>>

SetDocOk(i) ==
    /\ pending[i].kind = "setDoc"
    /\ docs' = [docs EXCEPT ![pending[i].key] = setDoc(@, SavedFields(pending[i]))]
    /\ Stay(IfLive(pending[i], [ui EXCEPT !.message = SavedMsg, !.isLoading = FALSE]),
            Release(pending, i))
    /\ UNCHANGED <<accounts, displayName, photoOf, clock, vin, vout>>

SaveFailed(i) ==
    /\ pending[i].kind \in {"updateUserProfile", "setDoc"}
    /\ Stay(IfLive(pending[i], [ui EXCEPT !.error = SaveFailedMsg, !.isLoading = FALSE]),
            Release(pending, i))
    /\ UNCHANGED <<Backend, vin, vout>>

\* onClick of the Sign out button
handleLogout ==
    /\ mounted = "Profile"
    /\ HasFree(pending)
    /\ Stay(ui, Issue(pending, Op("logout", NoUser, NoUser, NoData, Null, NoFile, 0)))
    /\ Tick
    /\ UNCHANGED <<Services, vin, vout>>

LogoutOk(i) ==
    /\ pending[i].kind = "logout"
    /\ Commit("/login", authLoading, NoUser, ui, Release(pending, i), displayName)
    /\ UNCHANGED <<Backend, vin, vout>>

LogoutFailed(i) ==
    /\ pending[i].kind = "logout"
    /\ Stay(IfLive(pending[i], [ui EXCEPT !.error = LogoutFailedMsg]), Release(pending, i))
    /\ UNCHANGED <<Backend, vin, vout>>

FetchedAbsentAsError(scr, doc, cu) ==
    IF doc.exists
    THEN [scr EXCEPT !.fetchingUserData = FALSE]
    ELSE [scr EXCEPT !.error = "Failed to load profile.", !.fetchingUserData = FALSE]

\* the form after fetchUserData read document doc for identity cu
Fetched(scr, doc, cu) ==
    IF doc.exists
    THEN [scr EXCEPT
            !.profileImage = IF Get(doc.data, "photoURL") # Null
                             THEN Get(doc.data, "photoURL")
                             ELSE IF photoOf[cu] # Null THEN photoOf[cu] ELSE @,
            !.errors = NoErrors,
            !.values = [username |-> OrElse(Get(doc.data, "username"),
                                            OrElse(displayName[cu], Empty)),
                        dob |-> OrElse(Get(doc.data, "dob"), Empty),
                        mobileNumber |-> OrElse(Get(doc.data, "mobileNumber"), Empty),
                        address |-> OrElse(Get(doc.data, "address"), Empty)],
            !.fetchingUserData = FALSE]
    ELSE [scr EXCEPT
            !.profileImage = IF photoOf[cu] # Null THEN photoOf[cu] ELSE @,
            !.errors = NoErrors,
            !.values = [username |-> OrElse(displayName[cu], Empty), dob |-> Empty,
                        mobileNumber |-> Empty, address |-> Empty],
            !.fetchingUserData = FALSE]

FetchOk(i) ==
    /\ pending[i].kind = "getDoc"
    /\ Stay(IfLive(pending[i], Fetched(ui, docs[pending[i].key], pending[i].cu)),
            Release(pending, i))
    /\ UNCHANGED <<Backend, vin, vout>>

FetchFailedNoFinally(i) ==
    /\ pending[i].kind = "getDoc"
    /\ Stay(ui, Release(pending, i))
    /\ UNCHANGED <<Backend, vin, vout>>

\* catch: console.error only; finally: setFetchingUserData(false)
FetchFailed(i) ==
    /\ pending[i].kind = "getDoc"
    /\ Stay(IfLive(pending[i], [ui EXCEPT !.fetchingUserData = FALSE]), Release(pending, i))
    /\ UNCHANGED <<Backend, vin, vout>>

-----------------------------------------------------------------------------
(* The application *)

IdleInput == [username |-> Empty, email |-> Empty, password |-> Empty,
              confirmPassword |-> Empty, age |-> Empty]

NotRun == [done |-> FALSE, errors |-> NoErrors]

\* what the services hold for identity u1 when the page loads: its display
\* name, its photo reference and its users/u1 document (identity u2 does not
\* exist yet and has no document)
Stored ==
    {[name |-> NameAnn, photo |-> GooglePhoto,
      doc |-> [exists |-> TRUE,
               data |-> [username |-> NameAnn, photoURL |-> OldPhoto,
                         theme |-> <<"d">>]]]}

Init ==
    /\ authLoading = TRUE
    /\ currentUser = NoUser
    /\ path \in Routes
    /\ mounted = Render(path, TRUE, NoUser)
    /\ ui = InitialUi(mounted, NoUser, [u \in Users |-> Empty])
    /\ pending = [i \in Slots |-> Free]
    /\ accounts = {"u1"}
    /\ \E st \in Stored :
          /\ displayName = [u \in Users |-> IF u = "u1" THEN st.name ELSE Empty]
          /\ photoOf = [u \in Users |-> IF u = "u1" THEN st.photo ELSE Null]
          /\ docs = [u \in Users |-> IF u = "u1" THEN st.doc ELSE NoDoc]
    /\ clock = 0
    /\ vin = IdleInput
    /\ vout = NotRun

Settle(i) ==
    \/ SignInOk(i) \/ SignInFailed(i)
    \/ GoogleOk(i) \/ GoogleFailed(i)
    \/ SignUpOk(i) \/ SignUpProfileOk(i) \/ SignUpFailed(i)
    \/ ResetOk(i) \/ ResetFailed(i)
    \/ FetchOk(i) \/ FetchFailed(i)
    \/ UploadBytesOk(i) \/ GetDownloadURLOk(i) \/ UploadFailed(i)
    \/ SaveIdentityOk(i) \/ SetDocOk(i) \/ SaveFailed(i)
    \/ LogoutOk(i) \/ LogoutFailed(i)

Next ==
    \/ AuthResolve
    \/ SessionExpired
    \/ GuardRedirect
    \/ ClickLink
    \/ \E d \in LoginInputs : LoginSubmit(d)
    \/ handleGoogleSignIn
    \/ \E d \in SignUpInputs : SignUpSubmit(d)
    \/ \E d \in ForgotInputs : ForgotSubmit(d)
    \/ \E f \in Files : handleImageChange(f)
    \/ handleImageChangeNoFile
    \/ \E d \in ProfileInputs : ProfileSubmit(d)
    \/ handleLogout
    \/ \E i \in Slots : Settle(i)

Spec == Init /\ [][Next]_vars

\* backend calls settle: while requests are in flight, one of them is
\* eventually resolved or rejected
SpecLive == Init /\ [][Next]_vars /\ WF_vars(\E i \in Slots : Settle(i))

-----------------------------------------------------------------------------
(* The validator on its own *)

\* the age strings the validator specification enumerates
AgeAlphabet == {"1", "7", "8", "9", "-", ".", " ", "a"}

AgeStrings ==
    UNION {[1..n -> AgeAlphabet] : n \in 0..MaxAgeLen}
    \cup {<<"a", "b", "c">>, <<"-", "5">>}

ValidateInputs ==
    {[username |-> NameBob, email |-> e, password |-> Secret,
      confirmPassword |-> c, age |-> a] :
        e \in {EmailB, NoAtEmail}, c \in {Secret, Secre2}, a \in AgeStrings}

\* the state the application is left in while the validator runs
AppIdle ==
    /\ authLoading = TRUE
    /\ currentUser = NoUser
    /\ path = "/signup"
    /\ mounted = "SignUp"
    /\ ui = InitialUi("SignUp", NoUser, [u \in Users |-> Empty])
    /\ pending = [i \in Slots |-> Free]
    /\ accounts = {"u1"}
    /\ displayName = [u \in Users |-> Empty]
    /\ photoOf = [u \in Users |-> Null]
    /\ docs = [u \in Users |-> NoDoc]
    /\ clock = 0

InitValidate ==
    /\ AppIdle
    /\ vin \in ValidateInputs
    /\ vout = NotRun

\* zodResolver(signUpSchema) applied to the submitted form
Validate ==
    /\ ~vout.done
    /\ vout' = [done |-> TRUE, errors |-> signUpSchema(vin)]
    /\ UNCHANGED <<appVars, vin>>

NextValidate == Validate

SpecValidate == InitValidate /\ [][NextValidate]_vars

-----------------------------------------------------------------------------
(* Properties *)

HasAt(s) == \E k \in 1..Len(s) : s[k] = "@"

Unissued(kinds) == \A i \in Slots : pending'[i].kind \in kinds => pending[i] = pending'[i]

\* C1: on Login, when the sign-in call of a submission succeeds the router
\* goes to /profile and the screen's error string is empty; when it fails
\* the location does not change, Login stays mounted and its single error
\* string holds the generic sign-in message.
C1_LoginOutcome ==
    [][\A i \in Slots :
          /\ SignInOk(i) =>
                /\ path' = "/profile"
                /\ pending[i].live => mounted = "Login" /\ ui.error = "" /\ ui'.error = ""
          /\ SignInFailed(i) =>
                /\ path' = path
                /\ pending[i].live =>
                      /\ mounted = "Login" /\ mounted' = "Login"
                      /\ ui'.error = SignInFailedMsg
                      /\ ui'.error # ""]_vars

C1_Witness ==
    /\ mounted = "Login" /\ path = "/login"
    /\ ui.error = SignInFailedMsg /\ ~ui.isLoading
    /\ \A i \in Slots : pending[i].kind = "free"

\* C2: on Login, SignUp and ForgotPassword a submitted email without "@"
\* is rejected with the email violation on the email field, and no sign-in,
\* sign-up or reset-password call is issued.
C2_NoAtRejected ==
    [][/\ mounted = "Login" =>
             \A d \in LoginInputs : ~HasAt(d.email) /\ LoginSubmit(d) =>
                /\ "email" \in DOMAIN ui'.errors /\ ui'.errors["email"] = EmailMsg
                /\ Unissued({"signIn"}) /\ ~ui'.isLoading
       /\ mounted = "SignUp" =>
             \A d \in SignUpInputs : ~HasAt(d.email) /\ SignUpSubmit(d) =>
                /\ "email" \in DOMAIN ui'.errors /\ ui'.errors["email"] = EmailMsg
                /\ Unissued({"signUp"}) /\ ~ui'.isLoading
       /\ mounted = "ForgotPassword" =>
             \A d \in ForgotInputs : ~HasAt(d.email) /\ ForgotSubmit(d) =>
                /\ "email" \in DOMAIN ui'.errors /\ ui'.errors["email"] = EmailMsg
                /\ Unissued({"resetPassword"}) /\ ~ui'.isLoading]_vars

C2_Witness ==
    /\ mounted = "Login"
    /\ "email" \in DOMAIN ui.errors /\ ui.errors["email"] = EmailMsg
    /\ "password" \notin DOMAIN ui.errors
    /\ \A i \in Slots : pending[i].kind # "signIn"

\* C3: on SignUp a submission whose password and confirmPassword differ is
\* rejected, the mismatch violation is on the confirmPassword field and on no
\* other field, and signUp is not called.
C3_MismatchOnConfirm ==
    [][mounted = "SignUp" =>
          \A d \in SignUpInputs :
             d.password # d.confirmPassword /\ SignUpSubmit(d) =>
                /\ "confirmPassword" \in DOMAIN ui'.errors
                /\ \A f \in DOMAIN ui'.errors :
                      ui'.errors[f] = MismatchMsg <=> f = "confirmPassword"
                /\ Unissued({"signUp"}) /\ ~ui'.isLoading]_vars

C3_Witness ==
    /\ mounted = "SignUp"
    /\ DOMAIN ui.errors = {"confirmPassword"}
    /\ ui.errors["confirmPassword"] = MismatchMsg
    /\ \A i \in Slots : pending[i].kind # "signUp"

Blank(s) == \A k \in 1..Len(s) : s[k] = " "

AllDigits(s) == \A k \in 1..Len(s) : s[k] \in Digits

\* a digit string that denotes an integer of at least 18: past its leading
\* zeros it has three or more digits, or two digits that are not below "18"
IntAtLeast18(s) ==
    \E z \in 0..Len(s) :
        /\ \A k \in 1..z : s[k] = "0"
        /\ z < Len(s) /\ s[z + 1] # "0"
        /\ \/ Len(s) - z >= 3
           \/ Len(s) - z = 2 /\ (s[z + 1] # "1" \/ s[z + 2] \in {"8", "9"})

\* an age string that reads as a number of at least 18: blanks, an optional
\* "+", an integer part of at least 18, an optional "." and fraction digits,
\* blanks
AgeAccepted(s) ==
    \E a \in 0..Len(s), b \in 0..Len(s), d \in 0..Len(s), sg \in {0, 1} :
        /\ a + sg <= d /\ d <= b
        /\ Blank(SubSeq(s, 1, a)) /\ Blank(SubSeq(s, b + 1, Len(s)))
        /\ sg = 1 => s[a + 1] = "+"
        /\ AllDigits(SubSeq(s, a + sg + 1, d))
        /\ IntAtLeast18(SubSeq(s, a + sg + 1, d))
        /\ d < b => s[d + 1] = "." /\ AllDigits(SubSeq(s, d + 2, b))

\* C4: the SignUp validator leaves the age field without violation exactly
\* when the age string reads as a number of at least 18; "17", "abc" and
\* "-5" get the age violation as a field message, "18" and "99" get none.
C4_AgeRule ==
    vout.done =>
        /\ "age" \in DOMAIN vout.errors <=> ~AgeAccepted(vin.age)
        /\ "age" \in DOMAIN vout.errors => vout.errors["age"] = AgeMsg
        /\ vin.age \in {<<"1", "7">>, <<"a", "b", "c">>, <<"-", "5">>} =>
              "age" \in DOMAIN vout.errors
        /\ vin.age \in {<<"1", "8">>, <<"9", "9">>} => "age" \notin DOMAIN vout.errors

C4_Witness ==
    /\ vout.done
    /\ vin.age = <<"1", "8">>
    /\ vin.email = EmailB /\ vin.confirmPassword = vin.password
    /\ vout.errors = NoErrors

UpdateFields ==
    {"username", "dob", "mobileNumber", "address", "photoURL", "email", "updatedAt"}

\* C5: a successful profile save merges into the identity's record: no field
\* of any record ever disappears, the fields the save does not carry keep
\* their values, the fields it carries take the submitted values, and no
\* other identity's record changes.
C5_MergeUpdate ==
    [][/\ \A u \in Users :
             /\ docs[u].exists => docs'[u].exists
             /\ DOMAIN docs[u].data \subseteq DOMAIN docs'[u].data
       /\ \A i \in Slots : SetDocOk(i) =>
             LET k == pending[i].key
             IN  /\ docs'[k].exists
                 /\ UpdateFields \subseteq DOMAIN docs'[k].data
                 /\ \A f \in DOMAIN docs[k].data \ UpdateFields :
                       docs'[k].data[f] = docs[k].data[f]
                 /\ docs'[k].data["username"] = pending[i].data.username
                 /\ docs'[k].data["address"] = pending[i].data.address
                 /\ \A u \in Users \ {k} : docs'[u] = docs[u]]_vars

C5_Witness ==
    /\ docs["u1"].exists
    /\ {"theme", "updatedAt", "address"} \subseteq DOMAIN docs["u1"].data
    /\ docs["u1"].data["theme"] = <<"d">>
    /\ docs["u1"].data["address"] = Addr

\* C6: when the fetch issued by a mounted Profile screen finds no record,
\* the error string is left as it was, the form is shown, and its values are
\* the identity's display name (empty if none) as username and empty dob,
\* mobileNumber and address.
C6_AbsentRecord ==
    [][\A i \in Slots :
          FetchOk(i) /\ pending[i].live /\ ~docs[pending[i].key].exists =>
             /\ mounted' = "Profile"
             /\ ui'.error = ui.error
             /\ ~ui'.fetchingUserData
             /\ ui'.values = [username |-> displayName[pending[i].key], dob |-> Empty,
                              mobileNumber |-> Empty, address |-> Empty]]_vars

C6_Witness ==
    /\ mounted = "Profile" /\ ~ui.fetchingUserData
    /\ \E u \in Users :
          /\ currentUser = u /\ ~docs[u].exists
          /\ displayName[u] = NameBob
          /\ ui.values = [username |-> NameBob, dob |-> Empty,
                          mobileNumber |-> Empty, address |-> Empty]
    /\ ui.error = ""
    /\ \A i \in Slots : pending[i].kind = "free"

C8_RouteGuard ==
    /\ [](/\ mounted = "Profile" =>
              ~authLoading /\ currentUser \in Users /\ path \in {"/", "/profile"}
          /\ mounted = "Navigate" =>
              ~authLoading /\ currentUser = NoUser /\ path \in {"/", "/profile"}
          /\ path \in {"/", "/profile"} =>
              /\ authLoading => mounted = "None"
              /\ ~authLoading /\ currentUser = NoUser => mounted = "Navigate"
              /\ ~authLoading /\ currentUser # NoUser => mounted = "Profile"
          /\ path = "/login" => mounted = "Login"
          /\ path = "/signup" => mounted = "SignUp"
          /\ path = "/forgot-password" => mounted = "ForgotPassword")
    /\ [][mounted = "Navigate" /\ path' # path =>
             path' = "/login" /\ mounted' = "Login"]_vars

C8_Witness ==
    /\ path = "/" /\ mounted = "Navigate"
    /\ ~authLoading /\ currentUser = NoUser

Keyed == {"getDoc", "uploadBytes", "setDoc"}

\* C9: every document read, document write and photo upload is addressed, at
\* the step that issues it, to the id of the identity authenticated at that
\* moment.
C9_KeyedByCurrentIdentity ==
    [][\A i \in Slots :
          pending'[i].kind \in Keyed /\ pending'[i].kind # pending[i].kind =>
             currentUser' \in Users /\ pending'[i].key = currentUser']_vars

ScreenOps ==
    {"signIn", "googleSignIn", "signUp", "signUp.updateUserProfile", "resetPassword",
     "uploadBytes", "getDownloadURL", "updateUserProfile", "setDoc", "logout"}

\* C10: the mounted screen has at most one operation in flight, and its
\* loading flag is set for as long as it has one.
C10_OneOperationPerScreen ==
    /\ Cardinality(InFlight(ScreenOps)) <= 1
    /\ InFlight(ScreenOps) # {} => ui.isLoading

LoadingOps ==
    {"signIn", "googleSignIn", "signUp", "signUp.updateUserProfile", "resetPassword",
     "uploadBytes", "getDownloadURL", "updateUserProfile", "setDoc"}

\* C11: when backend calls settle, the screen is idle again and again (not
\* loading and, on Profile, not fetching), so a screen that is loading or
\* fetching always becomes idle; and a screen with none of its operations in
\* flight is never loading or fetching.
C11_BackToIdle ==
    /\ [](InFlight(LoadingOps) = {} => ~ui.isLoading)
    /\ [](InFlight({"getDoc"}) = {} => ~ui.fetchingUserData)
    /\ []<>(~ui.isLoading /\ ~ui.fetchingUserData)

C11_Witness ==
    /\ mounted = "ForgotPassword"
    /\ ui.error = ResetFailedMsg /\ ~ui.isLoading
    /\ \A i \in Slots : pending[i].kind = "free"

\* a request of the mounted screen is rejected
Rejected(i) ==
    \/ SignInFailed(i) \/ GoogleFailed(i) \/ SignUpFailed(i) \/ ResetFailed(i)
    \/ FetchFailed(i) \/ UploadFailed(i) \/ SaveFailed(i) \/ LogoutFailed(i)

\* C12: when a request of the mounted screen is rejected, the screen is left
\* with a non-empty error message, and the step issues no request: the
\* rejected one is gone and the others are as they were.
C12_FailuresReported ==
    [][\A i \in Slots :
          pending[i].live /\ Rejected(i) =>
             /\ ui'.error # ""
             /\ pending' = [pending EXCEPT ![i] = Free]]_vars

Screens == {"Login", "SignUp", "ForgotPassword", "Profile"}

\* C13: the completion of a request whose screen has unmounted leaves the
\* screen that is shown by then as it is: the location, the mounted screen
\* and its state do not change.
C13_DetachedCompletionInert ==
    [][\A i \in Slots :
          (mounted \in Screens /\ pending[i].kind # "free" /\ ~pending[i].live
              /\ Settle(i)) =>
             (path' = path /\ mounted' = mounted /\ ui' = ui)]_vars

\* C14: when a SignUp submission ends with the failure banner, the identity
\* the submission asked for was not created by it and is not signed in.
C14_FailureMeansNoAccount ==
    [][\A i \in Slots :
          (pending[i].live /\ SignUpFailed(i)) =>
             /\ ui'.error = SignUpFailedMsg
             /\ pending[i].key \notin accounts'
             /\ currentUser' = NoUser \/ currentUser' # pending[i].key]_vars

\* C15: on Profile and on ForgotPassword the error message and the success
\* message are never both non-empty.
C15_OneBanner ==
    mounted \in {"Profile", "ForgotPassword"} => ~(ui.error # "" /\ ui.message # "")

\* the photo reference a record holds, Null when it has none
StoredPhoto(doc) ==
    IF doc.exists /\ "photoURL" \in DOMAIN doc.data THEN doc.data["photoURL"] ELSE Null

\* C16: a successful save leaves a record that held a photo reference with
\* a photo reference: a non-empty one is never replaced by an empty one.
C16_PhotoKept ==
    [][\A i \in Slots :
          (SetDocOk(i) /\ StoredPhoto(docs[pending[i].key]) # Null) =>
             StoredPhoto(docs'[pending[i].key]) # Null]_vars

====
